---- MODULE Spec2Model ----
(***************************************************************************)
(* A model of pass_import/formats/json.py: the structural header matcher   *)
(* JSON._ensureheader, and the 1PIF importer PIF (pif2json, is_format,     *)
(* parse, _find_otpauth, _load_domain_prefixes, _get_domain).              *)
(***************************************************************************)
EXTENDS Integers, Sequences, FiniteSets, TLC

VARIABLES
    \* ---- JSON._ensureheader
    data,       \* the document handed to _ensureheader
    header,     \* the header schema handed to _ensureheader
    hOrder,     \* insertion order of the keys of the header's dicts
    matched,    \* outcome of the last _ensureheader call
    mop,        \* last step taken on the document
    mprev,      \* outcome of the call before the last edit of the document
    mpath,      \* object position of the last edit
    mkey,       \* key added or removed by the last edit
    \* ---- PIF.pif2json
    file,       \* the open file: its content and the handle's read position
    lines,      \* the lines the file's content was written from
    pifout,     \* outcome of the last pif2json call
    pstate,     \* "init", then "done" once pif2json has run
    \* ---- PIF.__init__, PIF._get_domain
    domain_prefixes,    \* the class attribute PIF.domain_prefixes
    insts,      \* the PIF instances constructed so far, with their settings
    dstate,     \* "got" after _get_domain, "again" once its output was stripped again
    dself,      \* the instance _get_domain was last called on
    durl,       \* the url it was called with
    domainOut,  \* the domain it returned
    domainPrev, \* the domain handed to the last prefix-stripping step
    \* ---- PIF.is_format, PIF.parse (on the instance insts[1])
    jsons,      \* self.jsons
    selfdata,   \* self.data, the entry list
    detected,   \* what is_format returned, "none" before the call
    parsed,     \* "ok" when parse returned, or the exception it raised
    prevdata,   \* self.data when parse was called
    xitems,     \* the list parse got from pif2json
    xfolders    \* the folders dict of parse when its loop ended

mvars == <<data, header, hOrder, matched, mop, mprev, mpath, mkey>>

pvars == <<file, lines, pifout, pstate>>

dvars == <<domain_prefixes, insts, dstate, dself, durl, domainOut, domainPrev>>

xvars == <<jsons, selfdata, detected, parsed, prevdata, xitems, xfolders>>

vars == <<mvars, pvars, dvars, xvars>>

-----------------------------------------------------------------------------
(* Strings and JSON values.  A string is a sequence of chunks, each chunk  *)
(* a run of characters; "." , "/", "!" and "otpauth:" are chunks of their  *)
(* own.  Every JSON value is a record with the same four fields, so that   *)
(* any two values can be compared: k is the Python type of the value, s    *)
(* the text of a scalar, l the items of a list, d the mapping of a dict    *)
(* (from strings to values).                                               *)

\* The string of the single chunk x.
S(x) == <<x>>

EmptyStr == <<>>

JNull == [k |-> "null", s |-> EmptyStr, l |-> <<>>, d |-> <<>>]

JStr(x) == [k |-> "str", s |-> x, l |-> <<>>, d |-> <<>>]

JInt(x) == [k |-> "int", s |-> S(x), l |-> <<>>, d |-> <<>>]

JBool(x) == [k |-> "bool", s |-> S(x), l |-> <<>>, d |-> <<>>]

JList(items) == [k |-> "list", s |-> EmptyStr, l |-> items, d |-> <<>>]

JDict(f) == [k |-> "dict", s |-> EmptyStr, l |-> <<>>, d |-> f]

\* A type marker of a header schema: str, int, dict, list.
JType(t) == [k |-> "type", s |-> S(t), l |-> <<>>, d |-> <<>>]

EmptyMap == <<>>

\* The mapping f with key set to v (dict[key] = v).
MapSet(f, key, v) ==
    [x \in (DOMAIN f) \cup {key} |-> IF x = key THEN v ELSE f[x]]

\* The mapping f without key (dict.pop(key)).
MapDel(f, key) == [x \in (DOMAIN f) \ {key} |-> f[x]]

-----------------------------------------------------------------------------
(* JSON._ensureheader                                                      *)

\* isinstance(data, header) for a header that is a type; bool is a
\* subclass of int in Python.
IsInstance(d, h) ==
    CASE h.s = S("str") -> d.k = "str"
      [] h.s = S("int") -> d.k \in {"int", "bool"}
      [] h.s = S("dict") -> d.k = "dict"
      [] h.s = S("list") -> d.k = "list"
      [] OTHER -> FALSE

\* The keys of a header dict in iteration order.
HeaderKeys(h) == SelectSeq(hOrder, LAMBDA x : x \in DOMAIN h.d)

RECURSIVE ensureheaderLenient(_, _)
RECURSIVE LenientItems(_, _, _)
RECURSIVE LenientKeys(_, _, _)

LenientItems(items, h, i) ==
    IF i > Len(items) THEN "True"
    ELSE IF Len(h.l) = 0 THEN "IndexError"
    ELSE LET r == ensureheaderLenient(items[i], h.l[1])
         IN IF r = "True" THEN LenientItems(items, h, i + 1) ELSE r

LenientKeys(d, h, ks) ==
    IF ks = <<>> THEN "True"
    ELSE LET key == Head(ks)
             r == IF key \in DOMAIN d.d
                  THEN ensureheaderLenient(d.d[key], h.d[key])
                  ELSE ensureheaderLenient(JNull, h.d[key])
         IN IF r = "True" THEN LenientKeys(d, h, Tail(ks)) ELSE r

\* A variant of _ensureheader that treats an absent key as None, so that a
\* type marker accepts it.
ensureheaderLenient(d, h) ==
    IF h.k = "type"
    THEN IF d.k # "null" /\ ~IsInstance(d, h) THEN "False" ELSE "True"
    ELSE IF d.k = "list"
    THEN IF h.k # "list" THEN "False" ELSE LenientItems(d.l, h, 1)
    ELSE IF d.k = "dict"
    THEN IF h.k # "dict" THEN "False" ELSE LenientKeys(d, h, HeaderKeys(h))
    ELSE IF d = h THEN "True" ELSE "False"

RECURSIVE ensureheader(_, _)
RECURSIVE EnsureItems(_, _, _)
RECURSIVE EnsureKeys(_, _, _)

\* for item in data: if not self._ensureheader(item, header[0]): return False
EnsureItems(items, h, i) ==
    IF i > Len(items) THEN "True"
    ELSE IF Len(h.l) = 0 THEN "IndexError"
    ELSE LET r == ensureheader(items[i], h.l[1])
         IN IF r = "True" THEN EnsureItems(items, h, i + 1) ELSE r

\* for key, value in header.items():
\*     if key not in data or not self._ensureheader(data[key], value):
\*         return False
EnsureKeys(d, h, ks) ==
    IF ks = <<>> THEN "True"
    ELSE LET key == Head(ks)
         IN IF key \notin DOMAIN d.d THEN "False"
            ELSE LET r == ensureheader(d.d[key], h.d[key])
                 IN IF r = "True" THEN EnsureKeys(d, h, Tail(ks)) ELSE r

\* The outcome of _ensureheader(data, header): "True", "False", or the
\* exception it raises.
ensureheader(d, h) ==
    IF h.k = "type"
    THEN IF d.k # "null" /\ ~IsInstance(d, h) THEN "False" ELSE "True"
    ELSE IF d.k = "list"
    THEN IF h.k # "list" THEN "False" ELSE EnsureItems(d.l, h, 1)
    ELSE IF d.k = "dict"
    THEN IF h.k # "dict" THEN "False" ELSE EnsureKeys(d, h, HeaderKeys(h))
    ELSE IF d = h THEN "True" ELSE "False"

-----------------------------------------------------------------------------
(* Bounded documents and header schemas, by number of nodes.               *)

MaxDocNodes == 3

MaxHeaderNodes == 3

\* Keys a header may mention, and one more that only documents carry.
HeaderKeySet == {S("a"), S("b")}

DocKeySet == HeaderKeySet \cup {S("z")}

DocLeaves == {JNull, JStr(S("x")), JList(<<>>), JDict(EmptyMap)}

HeaderLeaves == DocLeaves \cup {JType("str"), JType("dict")}

\* The values an added key may carry.
AddedValues == {JStr(S("x")), JDict(EmptyMap)}

RECURSIVE DocsOfSize(_)
\* The documents of exactly n nodes: lists of at most two items, dicts over
\* the header's keys.
DocsOfSize(n) ==
    IF n <= 0 THEN {}
    ELSE IF n = 1 THEN DocLeaves
    ELSE {JList(<<c>>) : c \in DocsOfSize(n - 1)}
         \cup UNION {{JList(<<c1, c2>>) :
                        c1 \in DocsOfSize(i), c2 \in DocsOfSize(n - 1 - i)} :
                     i \in 1..(n - 2)}
         \cup UNION {{JDict([x \in {key} |-> c]) : c \in DocsOfSize(n - 1)} :
                     key \in HeaderKeySet}
         \cup UNION {{JDict([x \in HeaderKeySet |->
                              IF x = S("a") THEN c1 ELSE c2]) :
                        c1 \in DocsOfSize(i), c2 \in DocsOfSize(n - 1 - i)} :
                     i \in 1..(n - 2)}

RECURSIVE HeadersOfSize(_)
\* The header schemas of exactly n nodes: a list is empty or a one-element
\* template.
HeadersOfSize(n) ==
    IF n <= 0 THEN {}
    ELSE IF n = 1 THEN HeaderLeaves
    ELSE {JList(<<c>>) : c \in HeadersOfSize(n - 1)}
         \cup UNION {{JDict([x \in {key} |-> c]) : c \in HeadersOfSize(n - 1)} :
                     key \in HeaderKeySet}
         \cup UNION {{JDict([x \in HeaderKeySet |->
                              IF x = S("a") THEN c1 ELSE c2]) :
                        c1 \in HeadersOfSize(i), c2 \in HeadersOfSize(n - 1 - i)} :
                     i \in 1..(n - 2)}

Docs == UNION {DocsOfSize(n) : n \in 1..MaxDocNodes}

Headers == UNION {HeadersOfSize(n) : n \in 1..MaxHeaderNodes}

-----------------------------------------------------------------------------
(* Object positions of a document, and edits at them.                      *)

KeyStep(key) == [key |-> key, idx |-> 0]

IdxStep(i) == [key |-> EmptyStr, idx |-> i]

RECURSIVE ObjPaths(_)
\* The paths from the root of d to its dicts.
ObjPaths(d) ==
    IF d.k = "dict"
    THEN {<<>>} \cup UNION {{<<KeyStep(key)>> \o p : p \in ObjPaths(d.d[key])} :
                            key \in DOMAIN d.d}
    ELSE IF d.k = "list"
    THEN UNION {{<<IdxStep(i)>> \o p : p \in ObjPaths(d.l[i])} :
                i \in 1..Len(d.l)}
    ELSE {}

RECURSIVE NodeAt(_, _)
NodeAt(d, p) ==
    IF p = <<>> THEN d
    ELSE IF Head(p).idx = 0 THEN NodeAt(d.d[Head(p).key], Tail(p))
    ELSE NodeAt(d.l[Head(p).idx], Tail(p))

RECURSIVE ReplaceAt(_, _, _)
ReplaceAt(d, p, new) ==
    IF p = <<>> THEN new
    ELSE IF Head(p).idx = 0
    THEN JDict([d.d EXCEPT ![Head(p).key] = ReplaceAt(@, Tail(p), new)])
    ELSE JList([d.l EXCEPT ![Head(p).idx] = ReplaceAt(@, Tail(p), new)])

NoNode == [k |-> "none", s |-> EmptyStr, l |-> <<>>, d |-> <<>>]

RECURSIVE HeaderAt(_, _)
\* The header node _ensureheader compares with the document node at p: a
\* key step follows the header's dict, an index step the header's header[0].
HeaderAt(h, p) ==
    IF p = <<>> THEN h
    ELSE IF Head(p).idx = 0
    THEN IF h.k = "dict" /\ Head(p).key \in DOMAIN h.d
         THEN HeaderAt(h.d[Head(p).key], Tail(p))
         ELSE NoNode
    ELSE IF h.k = "list" /\ Len(h.l) > 0
         THEN HeaderAt(h.l[1], Tail(p))
         ELSE NoNode

\* The header requires key at the object position p.
Requires(h, p, key) ==
    LET hn == HeaderAt(h, p) IN hn.k = "dict" /\ key \in DOMAIN hn.d

-----------------------------------------------------------------------------
(* Text.  A text is a sequence of tokens: the characters "*", "x", " ",    *)
(* newline and ",", and literals.  A literal token stands for the text of  *)
(* one JSON value written on one line (it holds no newline, starts with no *)
(* "*", and neither starts nor ends with whitespace or a comma); v is the  *)
(* value json.loads reads from it.                                         *)

Tok(c) == [c |-> c, v |-> JNull]

Lit(v) == [c |-> "lit", v |-> v]

NL == Tok("nl")

Star == Tok("*")

\* \s of the regular expression.
IsSpace(t) == t.c \in {"nl", " "}

\* file.read(): the text from the handle's position to the end; the handle
\* is left at the end.
ReadText(f) == SubSeq(f.content, f.pos + 1, Len(f.content))

ReadFile(f) == [f EXCEPT !.pos = Len(f.content)]

\* "***" stands at positions i..i+2 of t.
StarsAt(t, i) ==
    /\ i >= 1
    /\ i + 2 <= Len(t)
    /\ t[i].c = "*" /\ t[i + 1].c = "*" /\ t[i + 2].c = "*"

\* (?m)^ matches at i: the start of the text or right after a newline.
LineStart(t, i) == i = 1 \/ (i > 1 /\ i - 1 <= Len(t) /\ t[i - 1].c = "nl")

\* The position of the newline that ends the line holding position i, or
\* Len(t) + 1.
LineEnd(t, i) ==
    LET nls == {j \in i..Len(t) : t[j].c = "nl"}
    IN IF nls = {} THEN Len(t) + 1
       ELSE CHOOSE j \in nls : \A j2 \in nls : j <= j2

\* The starts j of a closing "***" for a match of \*\*\*.*\*\*\*\s+ that
\* begins at i: "." matches no newline, and a whitespace follows the stars.
Closings(t, i) ==
    LET le == LineEnd(t, i)
    IN {j \in (i + 3)..(le - 3) :
           /\ StarsAt(t, j)
           /\ j + 3 <= Len(t)
           /\ IsSpace(t[j + 3])}

\* The first position after the whitespace run that starts at i.
SpaceEnd(t, i) ==
    LET rest == {j \in i..Len(t) : ~IsSpace(t[j])}
    IN IF rest = {} THEN Len(t) + 1
       ELSE CHOOSE j \in rest : \A j2 \in rest : j <= j2

\* The end (exclusive) of the match of (?m)^\*\*\*.*\*\*\*\s+ at i, 0 when
\* there is none; ".*" is greedy, so the last closing is taken.
MatchEnd(t, i) ==
    IF ~(LineStart(t, i) /\ StarsAt(t, i)) THEN 0
    ELSE LET cs == Closings(t, i)
         IN IF cs = {} THEN 0
            ELSE SpaceEnd(t, (CHOOSE j1 \in cs : \A j2 \in cs : j2 <= j1) + 3)

RECURSIVE ReSubFrom(_, _)
\* re.sub(r'(?m)^\*\*\*.*\*\*\*\s+', '', data), scanning from position i.
ReSubFrom(t, i) ==
    IF i > Len(t) THEN <<>>
    ELSE LET e == MatchEnd(t, i)
         IN IF e > 0 THEN ReSubFrom(t, e) ELSE <<t[i]>> \o ReSubFrom(t, i + 1)

ReSub(t) == ReSubFrom(t, 1)

\* ','.join(cleaned.split('\n')): every newline becomes a comma.
SplitJoin(t) == [i \in 1..Len(t) |-> IF t[i].c = "nl" THEN Tok(",") ELSE t[i]]

RECURSIVE RStripComma(_)
\* .rstrip(',')
RStripComma(t) ==
    IF t # <<>> /\ t[Len(t)].c = ","
    THEN RStripComma(SubSeq(t, 1, Len(t) - 1))
    ELSE t

JSONDecodeError == [err |-> "JSONDecodeError", items |-> <<>>]

RECURSIVE LoadsFrom(_, _, _, _)
\* json.loads('[%s]' % t) from position i, with the items read so far; st is
\* "first" after "[", "value" after a value, "comma" after a comma.
LoadsFrom(t, i, st, acc) ==
    IF i > Len(t)
    THEN IF st = "comma" THEN JSONDecodeError
         ELSE [err |-> "", items |-> acc]
    ELSE IF t[i].c = " " THEN LoadsFrom(t, i + 1, st, acc)
    ELSE IF t[i].c = "lit" /\ st \in {"first", "comma"}
    THEN LoadsFrom(t, i + 1, "value", Append(acc, t[i].v))
    ELSE IF t[i].c = "," /\ st = "value"
    THEN LoadsFrom(t, i + 1, "comma", acc)
    ELSE JSONDecodeError

JsonLoadsList(t) == LoadsFrom(t, 1, "first", <<>>)

\* PIF.pif2json on the text read from the file: the list of parsed lines,
\* or the JSONDecodeError json.loads raises.
pif2json(t) == JsonLoadsList(RStripComma(SplitJoin(ReSub(t))))

-----------------------------------------------------------------------------
(* PIF.domain_prefixes, PIF.__init__, PIF._load_domain_prefixes and        *)
(* PIF._get_domain.                                                        *)

\* The class attribute PIF.domain_prefixes as the class statement sets it.
DefaultPrefixes ==
    {S("www"), S("www2"), S("web"), S("home"), S("ssl"), S("app"), S("m"),
     S("account"), S("accounts"), S("auth"), S("id"), S("login")}

RECURSIVE load_domain_prefixes(_, _)
\* _load_domain_prefixes(prefixes) on the set ps: a prefix that starts with
\* "!" is discarded from the set, any other is added; prefix[0] raises
\* IndexError on an empty prefix.  Yields the set and the error raised.
load_domain_prefixes(prefixes, ps) ==
    IF prefixes = <<>> THEN [err |-> "", set |-> ps]
    ELSE LET prefix == Head(prefixes)
         IN IF prefix = EmptyStr THEN [err |-> "IndexError", set |-> ps]
            ELSE IF prefix[1] = "!"
            THEN load_domain_prefixes(Tail(prefixes), ps \ {Tail(prefix)})
            ELSE load_domain_prefixes(Tail(prefixes), ps \cup {prefix})

\* clean.protocol(url): the url without its protocol.
Protocols == {"https://", "http://"}

protocol(url) ==
    IF url # EmptyStr /\ url[1] \in Protocols THEN Tail(url) ELSE url

\* clean.domain(string): the host name, up to the first "/".
domain(str) ==
    LET slashes == {i \in 1..Len(str) : str[i] = "/"}
    IN IF slashes = {} THEN str
       ELSE SubSeq(str, 1, (CHOOSE i \in slashes : \A j \in slashes : i <= j) - 1)

RECURSIVE SplitDots(_)
\* str.split('.')
SplitDots(str) ==
    LET dots == {i \in 1..Len(str) : str[i] = "."}
    IN IF dots = {} THEN <<str>>
       ELSE LET i == CHOOSE i1 \in dots : \A j \in dots : i1 <= j
            IN <<SubSeq(str, 1, i - 1)>> \o SplitDots(SubSeq(str, i + 1, Len(str)))

RECURSIVE JoinDots(_)
\* '.'.join(parts)
JoinDots(parts) ==
    IF parts = <<>> THEN EmptyStr
    ELSE IF Len(parts) = 1 THEN parts[1]
    ELSE parts[1] \o <<".">> \o JoinDots(Tail(parts))

\* A loop that pops at most one prefix.
StripOnePrefix(parts, ps) ==
    IF Len(parts) > 2 /\ parts[1] \in ps THEN Tail(parts) ELSE parts

RECURSIVE StripPrefixes(_, _)
\* while len(parts) > 2 and parts[0] in self.domain_prefixes: parts.pop(0)
StripPrefixes(parts, ps) ==
    IF Len(parts) > 2 /\ parts[1] \in ps
    THEN StripPrefixes(Tail(parts), ps)
    ELSE parts

\* self.domain_prefixes: no instance ever assigns the attribute, so the
\* lookup yields the class attribute.
SelfDomainPrefixes(self) == domain_prefixes

\* The prefix-stripping step of _get_domain, on the domain dom.
StripDomain(self, dom) ==
    IF self.strip_domain_prefixes
    THEN JoinDots(StripPrefixes(SplitDots(dom), SelfDomainPrefixes(self)))
    ELSE dom

\* PIF._get_domain(url)
get_domain(self, url) == StripDomain(self, domain(protocol(url)))

\* PIF.__init__ with the settings opt: the instance it yields.
NewInstance(opt) ==
    [browserpass |-> opt.browserpass,
     strip_domain_prefixes |-> opt.strip_domain_prefixes,
     options |-> opt]

\* The domain_prefixes class attribute after PIF.__init__ with opt.
InitPrefixes(opt, ps) ==
    IF opt.strip_domain_prefixes
    THEN load_domain_prefixes(opt.domain_prefixes, ps)
    ELSE [err |-> "", set |-> ps]

-----------------------------------------------------------------------------
(* PIF.parse and PIF._find_otpauth.  A step that can raise yields a record *)
(* whose err names the exception, "" when none was raised.                 *)

JTrue == JBool("true")

JFalse == JBool("false")

\* dict.get(key, default)
Get(obj, key, default) == IF key \in DOMAIN obj.d THEN obj.d[key] ELSE default

\* The truth value Python gives a JSON value.
Truthy(v) ==
    CASE v.k = "null" -> FALSE
      [] v.k = "bool" -> v = JTrue
      [] v.k = "int" -> v.s # S("0")
      [] v.k = "str" -> v.s # EmptyStr
      [] v.k = "list" -> v.l # <<>>
      [] v.k = "dict" -> DOMAIN v.d # {}
      [] OTHER -> FALSE

\* PIF.ignore
ignore ==
    {S("keyID"), S("uuid"), S("updatedAt"), S("locationKey"),
     S("securityLevel"), S("openContents"), S("faveIndex"),
     S("contentsHash"), S("trashed"), S("URLs"), S("passwordHistory"),
     S("htmlName"), S("htmlMethod"), S("htmlAction"), S("sections"),
     S("createdAt"), S("typeName")}

\* self.invkeys(): from the names of the 1PIF file to the canonical names.
invkeys ==
    [x \in {S("title"), S("password"), S("username"), S("location"),
            S("notesPlain"), S("folderUuid")} |->
        CASE x = S("username") -> S("login")
          [] x = S("location") -> S("url")
          [] x = S("notesPlain") -> S("comments")
          [] x = S("folderUuid") -> S("group")
          [] OTHER -> x]

\* keys.get(key, key)
KeysGet(key) == IF key \in DOMAIN invkeys THEN invkeys[key] ELSE key

\* A JSON value used as the key of a dict: a string is its own key, any
\* other scalar is kept apart from the strings.
KeyOf(v) == IF v.k = "str" THEN v.s ELSE <<"#", v.k>> \o v.s

Hashable(v) == v.k \notin {"list", "dict"}

\* for x in v: the items the loop visits.  A dict yields its keys and a
\* string its characters, all strings; a value that is no container raises
\* TypeError.
Iterate(v) ==
    CASE v.k = "list" -> [err |-> "", items |-> v.l]
      [] v.k = "dict" ->
           [err |-> "",
            items |-> IF DOMAIN v.d = {} THEN <<>>
                      ELSE <<JStr(CHOOSE key \in DOMAIN v.d : TRUE)>>]
      [] v.k = "str" -> [err |-> "", items |-> [i \in 1..Len(v.s) |-> JStr(S(v.s[i]))]]
      [] OTHER -> [err |-> "TypeError", items |-> <<>>]

\* v.startswith('otpauth:')
StartsWithOtpauth(str) == str # EmptyStr /\ str[1] = "otpauth:"

RECURSIVE OtpInFields(_, _)
\* for f in s.get('fields', []): v = f.get('v');
\*     if v and v.startswith('otpauth:'): return v
OtpInFields(fs, i) ==
    IF i > Len(fs) THEN [err |-> "", found |-> FALSE, v |-> JNull]
    ELSE IF fs[i].k # "dict" THEN [err |-> "AttributeError", found |-> FALSE, v |-> JNull]
    ELSE LET v == Get(fs[i], S("v"), JNull)
         IN IF ~Truthy(v) THEN OtpInFields(fs, i + 1)
            ELSE IF v.k # "str"
            THEN [err |-> "AttributeError", found |-> FALSE, v |-> JNull]
            ELSE IF StartsWithOtpauth(v.s)
            THEN [err |-> "", found |-> TRUE, v |-> v]
            ELSE OtpInFields(fs, i + 1)

RECURSIVE OtpInSections(_, _)
\* for s in sections: ... return v; after the loops: return None
OtpInSections(ss, i) ==
    IF i > Len(ss) THEN [err |-> "", found |-> FALSE, v |-> JNull]
    ELSE IF ss[i].k # "dict" THEN [err |-> "AttributeError", found |-> FALSE, v |-> JNull]
    ELSE LET fs == Iterate(Get(ss[i], S("fields"), JList(<<>>)))
         IN IF fs.err # "" THEN [err |-> fs.err, found |-> FALSE, v |-> JNull]
            ELSE LET r == OtpInFields(fs.items, 1)
                 IN IF r.err # "" \/ r.found THEN r
                    ELSE OtpInSections(ss, i + 1)

\* PIF._find_otpauth(sections)
find_otpauth(sections) ==
    LET ss == Iterate(sections)
    IN IF ss.err # "" THEN [err |-> ss.err, found |-> FALSE, v |-> JNull]
       ELSE OtpInSections(ss.items, 1)

RECURSIVE FieldsLoop(_, _, _)
\* for field in fields: ... entry[key] = field.get('value', '')
FieldsLoop(fs, i, entry) ==
    IF i > Len(fs) THEN [err |-> "", entry |-> entry]
    ELSE IF fs[i].k # "dict" THEN [err |-> "AttributeError", entry |-> entry]
    ELSE LET name == Get(fs[i], S("name"), JStr(EmptyStr))
             designation == Get(fs[i], S("designation"), JStr(EmptyStr))
             jsonkey == IF Truthy(designation) THEN designation ELSE name
         IN IF ~Hashable(jsonkey) THEN [err |-> "TypeError", entry |-> entry]
            ELSE FieldsLoop(fs, i + 1,
                     MapSet(entry, KeysGet(KeyOf(jsonkey)),
                            Get(fs[i], S("value"), JStr(EmptyStr))))

\* item.update(scontent)
Update(f, g) ==
    [x \in (DOMAIN f) \cup (DOMAIN g) |-> IF x \in DOMAIN g THEN g[x] ELSE f[x]]

\* for key, value in item.items():
\*     if key not in self.ignore: entry[keys.get(key, key)] = value
\* (no two keys of the records of the model have the same canonical name).
MergeItem(entry, itemd) ==
    LET kept == (DOMAIN itemd) \ ignore
        targets == {KeysGet(key) : key \in kept}
    IN [t \in (DOMAIN entry) \cup targets |->
           IF t \in targets
           THEN itemd[CHOOSE key \in kept : KeysGet(key) = t]
           ELSE entry[t]]

\* The test on a record that a parse without the trashed filter makes.
TrashedIgnored(item) == FALSE

\* item.get('trashed', False)
IsTrashed(item) == Truthy(Get(item, S("trashed"), JFalse))

\* The browserpass branch: the record with its title replaced by the domain
\* of its location.
RewriteTitle(self, item) ==
    LET url == Get(item, S("location"), JNull)
    IN IF ~Truthy(url) THEN [err |-> "", item |-> item]
       ELSE IF url.k # "str" THEN [err |-> "TypeError", item |-> item]
       ELSE LET title == get_domain(self, url.s)
            IN [err |-> "",
                item |-> IF title # EmptyStr
                         THEN JDict(MapSet(item.d, S("title"), JStr(title)))
                         ELSE item]

\* The body of the webforms.WebForm branch from the pop of secureContents
\* on: the entry the record yields.
WebFormEntry(item) ==
    LET scontent == Get(item, S("secureContents"), JDict(EmptyMap))
        item1 == MapDel(item.d, S("secureContents"))
    IN IF scontent.k # "dict"
       THEN [err |-> IF scontent.k = "list" THEN "TypeError" ELSE "AttributeError",
             entry |-> EmptyMap]
       ELSE
       LET fields == Iterate(Get(scontent, S("fields"), JList(<<>>)))
           sc1 == MapDel(scontent.d, S("fields"))
       IN IF fields.err # "" THEN [err |-> fields.err, entry |-> EmptyMap]
          ELSE
          LET e1 == FieldsLoop(fields.items, 1, EmptyMap)
              sections == IF S("sections") \in DOMAIN sc1 THEN sc1[S("sections")]
                          ELSE JList(<<>>)
              sc2 == MapDel(sc1, S("sections"))
          IN IF e1.err # "" THEN e1
             ELSE
             LET otp == IF Truthy(sections) THEN find_otpauth(sections)
                        ELSE [err |-> "", found |-> FALSE, v |-> JNull]
                 e2 == IF otp.found THEN MapSet(e1.entry, S("otpauth"), otp.v)
                       ELSE e1.entry
             IN IF otp.err # "" THEN [err |-> otp.err, entry |-> EmptyMap]
                ELSE [err |-> "", entry |-> MergeItem(e2, Update(item1, sc2))]

\* One turn of the loop of parse on item: st holds the entries appended to
\* self.data, the folders dict and the exception raised.
ParseItem(self, item, st) ==
    IF item.k # "dict" THEN [st EXCEPT !.err = "AttributeError"]
    ELSE IF IsTrashed(item) THEN st
    ELSE IF Get(item, S("typeName"), JStr(EmptyStr)) = JStr(S("system.folder.Regular"))
    THEN LET key == Get(item, S("uuid"), JStr(EmptyStr))
         IN IF ~Hashable(key) THEN [st EXCEPT !.err = "TypeError"]
            ELSE [st EXCEPT !.folders =
                     MapSet(@, key,
                            [group |-> Get(item, S("title"), JStr(EmptyStr)),
                             parent |-> Get(item, S("folderUuid"), JStr(EmptyStr))])]
    ELSE IF Get(item, S("typeName"), JStr(EmptyStr)) = JStr(S("webforms.WebForm"))
    THEN LET it == IF self.browserpass THEN RewriteTitle(self, item)
                   ELSE [err |-> "", item |-> item]
         IN IF it.err # "" THEN [st EXCEPT !.err = it.err]
            ELSE LET e == WebFormEntry(it.item)
                 IN IF e.err # "" THEN [st EXCEPT !.err = e.err]
                    ELSE [st EXCEPT !.data = Append(@, e.entry)]
    ELSE st

RECURSIVE ParseLoop(_, _, _, _)
\* for item in jsons: ...; an exception ends the loop.
ParseLoop(self, items, i, st) ==
    IF i > Len(items) \/ st.err # "" THEN st
    ELSE ParseLoop(self, items, i + 1, ParseItem(self, items[i], st))

RECURSIVE GroupPath(_, _, _)
\* The group names from the root down to the folder id, following the
\* parent links until one is missing or was seen before.
GroupPath(folders, id, seen) ==
    IF id \notin DOMAIN folders \/ id \in seen THEN <<>>
    ELSE Append(GroupPath(folders, folders[id].parent, seen \cup {id}),
                folders[id].group)

RECURSIVE JoinPath(_)
\* os.path.join of the names
JoinPath(names) ==
    IF names = <<>> THEN EmptyStr
    ELSE IF Len(names) = 1 THEN names[1].s
    ELSE names[1].s \o <<"/">> \o JoinPath(Tail(names))

\* self._sortgroup(folders): every entry's folder identifier is resolved to
\* the path of its folder; an entry whose folder is unknown gets no group.
sortgroup(entries, folders) ==
    [i \in 1..Len(entries) |->
        IF S("group") \notin DOMAIN entries[i] THEN entries[i]
        ELSE IF entries[i][S("group")] \in DOMAIN folders
        THEN [entries[i] EXCEPT ![S("group")] =
                 JStr(JoinPath(GroupPath(folders, entries[i][S("group")], {})))]
        ELSE MapDel(entries[i], S("group"))]

\* PIF.parse() on the list pif2json returned, with self.data = before: the
\* exception raised, self.data afterwards, and the folders dict.
RunParse(self, items, before) ==
    LET st == ParseLoop(self, items, 1,
                        [err |-> "", data |-> before, folders |-> EmptyMap])
    IN IF st.err # "" THEN st
       ELSE [st EXCEPT !.data = sortgroup(st.data, st.folders)]

-----------------------------------------------------------------------------
(* The state of the parts of the program a specification leaves alone.    *)

NoFile == [content |-> <<>>, pos |-> 0]

NoOut == [err |-> "none", items |-> <<>>]

PIdle ==
    /\ file = NoFile
    /\ lines = <<>>
    /\ pifout = NoOut
    /\ pstate = "idle"

MIdle ==
    /\ data = JNull
    /\ header = JNull
    /\ hOrder = <<>>
    /\ matched = "none"
    /\ mop = "idle"
    /\ mprev = "none"
    /\ mpath = <<>>
    /\ mkey = EmptyStr

DIdle ==
    /\ domain_prefixes = DefaultPrefixes
    /\ insts = <<>>
    /\ dstate = "idle"
    /\ dself = 0
    /\ durl = EmptyStr
    /\ domainOut = EmptyStr
    /\ domainPrev = EmptyStr

XIdle ==
    /\ jsons = JNull
    /\ selfdata = <<>>
    /\ detected = "none"
    /\ parsed = "none"
    /\ prevdata = <<>>
    /\ xitems = <<>>
    /\ xfolders = EmptyMap

-----------------------------------------------------------------------------
(* pif2json's specification: a file is written from lines, each a marker   *)
(* line or an object literal, and pif2json reads it.                       *)

MaxLines == 3

ObjA == JDict([x \in {S("a")} |-> JInt("1")])

ObjB == JDict([x \in {S("b")} |-> JInt("2")])

\* The block separators "***x***" and "******": the marker, any text, and
\* the marker again; and two object literals.
MarkerLines ==
    {<<Star, Star, Star, Tok("x"), Star, Star, Star>>,
     <<Star, Star, Star, Star, Star, Star>>}

ObjectLines == {<<Lit(ObjA)>>, <<Lit(ObjB)>>}

RECURSIVE JoinLines(_)
\* '\n'.join(lines)
JoinLines(ls) ==
    IF ls = <<>> THEN <<>>
    ELSE IF Len(ls) = 1 THEN ls[1]
    ELSE ls[1] \o <<NL>> \o JoinLines(Tail(ls))

\* A file opened on the lines ls, with or without a final newline.
OpenFile(ls, trail) == [content |-> JoinLines(ls) \o trail, pos |-> 0]

PInit ==
    /\ \E n \in 1..MaxLines :
         /\ lines \in [1..n -> MarkerLines \cup ObjectLines]
         /\ \E trail \in {<<>>, <<NL>>} : file = OpenFile(lines, trail)
    /\ pifout = NoOut
    /\ pstate = "init"
    /\ MIdle
    /\ DIdle
    /\ XIdle

\* PIF.pif2json(file)
Pif2Json ==
    /\ pstate = "init"
    /\ pifout' = pif2json(ReadText(file))
    /\ file' = ReadFile(file)
    /\ pstate' = "done"
    /\ UNCHANGED <<lines, mvars, dvars, xvars>>

PNext == Pif2Json

SpecPif == PInit /\ [][PNext]_vars

-----------------------------------------------------------------------------
(* The domain specification: instances are constructed with settings, and  *)
(* _get_domain is called on them.                                          *)

MaxInstances == 2

MaxLabels == 4

Labels == {S("www"), S("a"), S("com")}

\* The domain_prefixes settings: none, one prefix added, one removed.
DirectiveLists == {<<>>, <<S("a")>>, <<<<"!", "www">>>>}

Settings ==
    [browserpass : {FALSE}, strip_domain_prefixes : BOOLEAN,
     domain_prefixes : DirectiveLists]

Domains == UNION {{JoinDots(ls) : ls \in [1..n -> Labels]} : n \in 1..MaxLabels}

Urls == Domains \cup {<<"https://">> \o dm \o <<"/", "p">> : dm \in Domains}

DInit == DIdle /\ MIdle /\ PIdle /\ XIdle

\* PIF(settings={'1password': opt}); what _get_domain returned before is
\* no longer looked at.
Construct ==
    /\ Len(insts) < MaxInstances
    /\ \E opt \in Settings :
         LET r == InitPrefixes(opt, domain_prefixes)
         IN /\ domain_prefixes' = r.set
            /\ insts' = IF r.err = "" THEN Append(insts, NewInstance(opt))
                        ELSE insts
    /\ dstate' = "idle"
    /\ dself' = 0
    /\ durl' = EmptyStr
    /\ domainOut' = EmptyStr
    /\ domainPrev' = EmptyStr
    /\ UNCHANGED <<mvars, pvars, xvars>>

\* insts[i]._get_domain(url)
GetDomain ==
    /\ dstate = "idle"
    /\ \E i \in 1..Len(insts), url \in Urls :
         /\ dself' = i
         /\ durl' = url
         /\ domainPrev' = domain(protocol(url))
         /\ domainOut' = get_domain(insts[i], url)
    /\ dstate' = "got"
    /\ UNCHANGED <<domain_prefixes, insts, mvars, pvars, xvars>>

\* The prefix-stripping step of the same instance, on the domain
\* _get_domain has just returned.
StripAgain ==
    /\ dstate = "got"
    /\ domainPrev' = domainOut
    /\ domainOut' = StripDomain(insts[dself], domainOut)
    /\ dstate' = "again"
    /\ UNCHANGED <<domain_prefixes, insts, dself, durl, mvars, pvars, xvars>>

DNext == Construct \/ GetDomain \/ StripAgain

SpecDomain == DInit /\ [][DNext]_vars

-----------------------------------------------------------------------------
(* The matcher's specification: a document and a header are drawn, the     *)
(* matcher runs, then one key is added to or removed from the document and *)
(* the matcher runs again.                                                 *)

MInit ==
    /\ data \in Docs
    /\ header \in Headers
    /\ hOrder \in {<<S("a"), S("b")>>, <<S("b"), S("a")>>}
    /\ matched = "none"
    /\ mop = "init"
    /\ mprev = "none"
    /\ mpath = <<>>
    /\ mkey = EmptyStr
    /\ PIdle
    /\ DIdle
    /\ XIdle

\* checkheader: self._ensureheader(self.jsons, header)
EnsureHeader ==
    /\ mop = "init"
    /\ matched' = ensureheader(data, header)
    /\ mop' = "check"
    /\ UNCHANGED <<data, header, hOrder, mprev, mpath, mkey, pvars, dvars, xvars>>

\* A key the header does not mention at p is added to the dict at p, with a
\* leaf value, and the matcher runs on the new document.
AddKey ==
    /\ mop = "check"
    /\ \E p \in ObjPaths(data), key \in DocKeySet, v \in AddedValues :
         /\ key \notin DOMAIN NodeAt(data, p).d
         /\ ~Requires(header, p, key)
         /\ data' = ReplaceAt(data, p, JDict(MapSet(NodeAt(data, p).d, key, v)))
         /\ mpath' = p
         /\ mkey' = key
    /\ matched' = ensureheader(data', header)
    /\ mprev' = matched
    /\ mop' = "add"
    /\ UNCHANGED <<header, hOrder, pvars, dvars, xvars>>

\* A key is removed from the dict at p and the matcher runs on the new
\* document.
RemoveKey ==
    /\ mop = "check"
    /\ \E p \in ObjPaths(data) :
         \E key \in DOMAIN NodeAt(data, p).d :
            /\ data' = ReplaceAt(data, p, JDict(MapDel(NodeAt(data, p).d, key)))
            /\ mpath' = p
            /\ mkey' = key
    /\ matched' = ensureheader(data', header)
    /\ mprev' = matched
    /\ mop' = "remove"
    /\ UNCHANGED <<header, hOrder, pvars, dvars, xvars>>

MNext == EnsureHeader \/ AddKey \/ RemoveKey

SpecMatch == MInit /\ [][MNext]_vars

-----------------------------------------------------------------------------
(* The importer's specification: a PIF instance is constructed on a 1PIF   *)
(* file of records, each followed by a separator line; is_format and parse *)
(* are called on it.                                                       *)

MaxRecords == 2

\* The dict of the <<key, value>> pairs.
Dict(pairs) ==
    JDict([x \in {pairs[i][1] : i \in 1..Len(pairs)} |->
              pairs[CHOOSE i \in 1..Len(pairs) : pairs[i][1] = x][2]])

OtpA == JStr(<<"otpauth:", "A">>)

OtpB == JStr(<<"otpauth:", "B">>)

\* A section whose fields carry the values vs.
Section(vs) ==
    Dict(<< <<S("fields"), JList([i \in 1..Len(vs) |-> Dict(<< <<S("v"), vs[i]>> >>)])>> >>)

LoginFields ==
    JList(<<Dict(<< <<S("name"), JStr(S("user"))>>,
                    <<S("designation"), JStr(S("username"))>>,
                    <<S("value"), JStr(S("bob"))>> >>),
            Dict(<< <<S("name"), JStr(S("pass"))>>,
                    <<S("designation"), JStr(S("password"))>>,
                    <<S("value"), JStr(S("pw"))>> >>)>>)

\* The secureContents of the credential records of the model.
SecureContents ==
    {Dict(<< <<S("fields"), LoginFields>> >>),
     Dict(<< <<S("fields"), JList(<<Dict(<< <<S("name"), JStr(S("uuid"))>>,
                                            <<S("value"), JStr(S("x"))>> >>)>>)>> >>),
     Dict(<< <<S("fields"), JList(<<>>)>>,
             <<S("URLs"), JList(<<JStr(S("u"))>>)>>,
             <<S("notesPlain"), JStr(S("note"))>> >>),
     Dict(<< <<S("sections"), JList(<<Section(<<OtpA>>), Section(<<OtpB>>)>>)>> >>),
     Dict(<< <<S("sections"),
               JList(<<Section(<<>>), Section(<<JStr(S("plain")), OtpB, OtpA>>)>>)>> >>),
     Dict(<< <<S("sections"), JList(<<Section(<<JStr(S("plain"))>>)>>)>> >>),
     Dict(<< <<S("sections"), JList(<<Section(<<JInt("5"), OtpA>>)>>)>> >>),
     Dict(<< <<S("sections"), JList(<<Section(<<OtpA>>)>>)>>,
             <<S("otpauth"), JStr(S("S"))>> >>),
     JInt("5")}

\* A webforms.WebForm record with the pairs extra.
WebForm(extra) ==
    Dict(<< <<S("typeName"), JStr(S("webforms.WebForm"))>>,
            <<S("uuid"), JStr(S("U1"))>>,
            <<S("title"), JStr(S("T"))>>,
            <<S("location"), JStr(<<"https://", "www", ".", "a", ".", "com", "/", "p">>)>>,
            <<S("folderUuid"), JStr(S("F1"))>> >> \o extra)

\* A system.folder.Regular record.
Folder(uuid, title, parent, extra) ==
    Dict(<< <<S("typeName"), JStr(S("system.folder.Regular"))>>,
            <<S("uuid"), JStr(S(uuid))>>,
            <<S("title"), JStr(S(title))>>,
            <<S("folderUuid"), JStr(S(parent))>> >> \o extra)

Trashed == << <<S("trashed"), JTrue>> >>

Records ==
    {WebForm(<< <<S("secureContents"), sc>> >>) : sc \in SecureContents}
    \cup {WebForm(<<>>),
          WebForm(<< <<S("trashed"), JFalse>>,
                     <<S("secureContents"), Dict(<< <<S("fields"), LoginFields>> >>)>> >>),
          WebForm(Trashed \o << <<S("secureContents"),
                                  Dict(<< <<S("fields"), LoginFields>> >>)>> >>),
          WebForm(Trashed \o << <<S("secureContents"), JInt("5")>> >>),
          WebForm(<< <<S("otpauth"), JStr(S("T"))>>,
                     <<S("secureContents"),
                       Dict(<< <<S("sections"), JList(<<Section(<<OtpA>>)>>)>> >>)>> >>),
          Folder("F1", "Work", "", <<>>),
          Folder("F1", "Work", "F2", <<>>),
          Folder("F2", "Sub", "F1", <<>>),
          Folder("F1", "Work", "", Trashed),
          Dict(<< <<S("typeName"), JStr(S("securenotes.SecureNote"))>>,
                  <<S("title"), JStr(S("N"))>> >>),
          Dict(<< <<S("typeName"), JStr(S("securenotes.SecureNote"))>>,
                  <<S("title"), JStr(S("N"))>> >> \o Trashed),
          JInt("5")}

\* The lines of the files of the model: a record each, or a line no JSON
\* parser reads.
RecordLines == {<<Lit(r)>> : r \in Records} \cup {<<Tok("x")>>}

SeparatorLine == <<Star, Star, Star, Tok("x"), Star, Star, Star>>

RECURSIVE WithSeparators(_)
\* Every line followed by a separator line, as 1Password writes the file.
WithSeparators(ls) ==
    IF ls = <<>> THEN <<>>
    ELSE <<ls[1], SeparatorLine>> \o WithSeparators(Tail(ls))

XInit ==
    /\ \E n \in 0..MaxRecords :
         \E ls \in [1..n -> RecordLines] :
            /\ lines = WithSeparators(ls)
            /\ file = OpenFile(lines, <<NL>>)
    /\ pifout = NoOut
    /\ pstate = "idle"
    /\ \E opt \in [browserpass : BOOLEAN, strip_domain_prefixes : BOOLEAN,
                   domain_prefixes : {<<>>}] :
         /\ insts = <<NewInstance(opt)>>
         /\ domain_prefixes = InitPrefixes(opt, DefaultPrefixes).set
    /\ dstate = "idle"
    /\ dself = 0
    /\ durl = EmptyStr
    /\ domainOut = EmptyStr
    /\ domainPrev = EmptyStr
    /\ XIdle
    /\ MIdle

\* PIF.is_format()
IsFormat ==
    /\ detected = "none"
    /\ parsed = "none"
    /\ LET r == pif2json(ReadText(file))
       IN /\ jsons' = IF r.err = "" THEN JList(r.items) ELSE jsons
          /\ detected' = IF r.err = "" THEN "True" ELSE "False"
    /\ file' = ReadFile(file)
    /\ UNCHANGED <<lines, pifout, pstate, selfdata, parsed, prevdata, xitems,
                   xfolders, mvars, dvars>>

\* PIF.parse()
Parse ==
    /\ parsed = "none"
    /\ LET r == pif2json(ReadText(file))
           st == RunParse(insts[1], r.items, selfdata)
       IN /\ parsed' = IF r.err # "" THEN r.err
                       ELSE IF st.err # "" THEN st.err ELSE "ok"
          /\ selfdata' = IF r.err # "" THEN selfdata ELSE st.data
          /\ xitems' = r.items
          /\ xfolders' = IF r.err # "" THEN EmptyMap ELSE st.folders
    /\ prevdata' = selfdata
    /\ file' = ReadFile(file)
    /\ UNCHANGED <<lines, pifout, pstate, jsons, detected, mvars, dvars>>

Next == IsFormat \/ Parse

Spec == XInit /\ [][Next]_vars

-----------------------------------------------------------------------------
(* Claims about the matcher, checked under SpecMatch.                      *)

\* C2: _ensureheader returns a boolean for every document and every header
\* schema, and never raises.
C2_MatcherTotal == mop # "init" => matched \in {"True", "False"}

\* C3: when _ensureheader(d, s) is true, adding to d a key that s does not
\* mention keeps it true, and removing from d a key that s requires at that
\* object position makes it false, also when s holds a type marker there.
C3_MatcherMonotone ==
    /\ (mop = "add" /\ mprev = "True") => matched = "True"
    /\ (mop = "remove" /\ mprev = "True" /\ Requires(header, mpath, mkey))
         => matched = "False"

\* A key whose schema value is a type marker was removed from a document
\* that matched, at a nested object position.
C3_Witness ==
    /\ mop = "remove"
    /\ mprev = "True"
    /\ mpath # <<>>
    /\ Requires(header, mpath, mkey)
    /\ HeaderAt(header, mpath).d[mkey].k = "type"
    /\ matched = "False"

-----------------------------------------------------------------------------
(* Claims about pif2json, checked under SpecPif.                           *)

IsMarkerLine(ln) == StarsAt(ln, 1)

RECURSIVE LineValues(_)
\* The values of the lines that are not marker lines, each parsed alone.
LineValues(ls) ==
    IF ls = <<>> THEN <<>>
    ELSE IF IsMarkerLine(ls[1]) THEN LineValues(Tail(ls))
    ELSE JsonLoadsList(ls[1]).items \o LineValues(Tail(ls))

\* C4: on lines that are each a marker line or a valid object literal,
\* pif2json returns one element per non-marker line, in line order, each
\* equal to parsing that line alone; marker lines cause no failure.
C4_LegacyRoundTrip ==
    pstate = "done" => (pifout.err = "" /\ pifout.items = LineValues(lines))

-----------------------------------------------------------------------------
(* Claims about the domain prefixes, checked under SpecDomain.             *)

\* The prefix set an instance's own settings determine.
OwnPrefixes(self) == InitPrefixes(self.options, DefaultPrefixes).set

\* C6: the prefix set _get_domain of an instance uses is determined by that
\* instance's own settings only; constructing other instances never changes
\* it, and an instance with no directives sees the default set.
C6_InstanceLocalPrefixes ==
    \A i \in 1..Len(insts) :
        insts[i].strip_domain_prefixes
            => SelfDomainPrefixes(insts[i]) = OwnPrefixes(insts[i])

\* C10: the prefix-stripping step of _get_domain applied to its own output
\* returns that output unchanged; a domain of at most two labels is
\* returned unchanged.
C10_StripIdempotent ==
    /\ dstate = "again" => domainOut = domainPrev
    /\ (dstate = "got" /\ Len(SplitDots(domainPrev)) <= 2)
         => domainOut = domainPrev

\* The step ran again on a domain from which _get_domain had stripped two
\* prefixes.
C10_Witness ==
    /\ dstate = "again"
    /\ Len(SplitDots(domain(protocol(durl)))) = Len(SplitDots(domainOut)) + 2
    /\ domainOut = domainPrev

-----------------------------------------------------------------------------
(* Claims about is_format and parse, checked under Spec.                   *)

\* What parse() yields on a fresh handle over the bytes of the file.
FreshParse == RunParse(insts[1], pif2json(file.content).items, prevdata)

\* C1: when is_format returned true, a parse on the same handle produces
\* the entries parse would produce on a fresh handle over the same bytes.
C1_DetectThenParse ==
    (detected = "True" /\ parsed # "none" /\ FreshParse.err = "")
        => /\ parsed = "ok"
           /\ selfdata = FreshParse.data

\* C5: when parse fails while processing a record, self.data is what it
\* was before parse was called.
C5_AtomicFailure ==
    (parsed \notin {"none", "ok"}) => selfdata = prevdata

\* The record is a credential record that parse turns into an entry.
IsCredential(item) ==
    /\ item.k = "dict"
    /\ Get(item, S("trashed"), JFalse) # JTrue
    /\ Get(item, S("typeName"), JNull) = JStr(S("webforms.WebForm"))

\* The values v of the fields of the sections, in section order then field
\* order, on a record whose sections are lists of fields.
RECURSIVE FlatValues(_)
FlatValues(ss) ==
    IF ss = <<>> THEN <<>>
    ELSE LET fs == Get(ss[1], S("fields"), JList(<<>>)).l
         IN [i \in 1..Len(fs) |-> Get(fs[i], S("v"), JNull)] \o FlatValues(Tail(ss))

SectionValues(item) ==
    LET sc == Get(item, S("secureContents"), JDict(EmptyMap))
    IN IF sc.k # "dict" THEN <<>>
       ELSE FlatValues(Get(sc, S("sections"), JList(<<>>)).l)

IsOtp(v) == v.k = "str" /\ v.s # EmptyStr /\ v.s[1] = "otpauth:"

HasOtp(item) == \E i \in 1..Len(SectionValues(item)) : IsOtp(SectionValues(item)[i])

FirstOtp(item) ==
    LET vs == SectionValues(item)
        i == CHOOSE i1 \in 1..Len(vs) :
                 IsOtp(vs[i1]) /\ \A j \in 1..(i1 - 1) : ~IsOtp(vs[j])
    IN vs[i]

\* The number of credential records among the first i records.
RECURSIVE Credentials(_, _)
Credentials(items, i) ==
    IF i = 0 THEN 0
    ELSE Credentials(items, i - 1) + (IF IsCredential(items[i]) THEN 1 ELSE 0)

\* C7: the entry of a credential record whose sections hold a value that
\* starts with "otpauth:" has the first such value as its otpauth field,
\* whatever other keys the record carries.
C7_OtpPrecedence ==
    parsed = "ok" =>
        \A i \in 1..Len(xitems) :
            (IsCredential(xitems[i]) /\ HasOtp(xitems[i]))
                => LET e == selfdata[Len(prevdata) + Credentials(xitems, i)]
                   IN /\ S("otpauth") \in DOMAIN e
                      /\ e[S("otpauth")] = FirstOtp(xitems[i])

\* C8: no entry has a field that comes from a name of the ignore set.
C8_IgnoreSet ==
    \A i \in 1..Len(selfdata) : (DOMAIN selfdata[i]) \cap ignore = {}

\* The records that do not carry trashed: true.
Untrashed(items) ==
    SelectSeq(items, LAMBDA it : ~(it.k = "dict" /\ Get(it, S("trashed"), JFalse) = JTrue))

\* C9: a record with trashed: true adds nothing to the entries and nothing
\* to the folders, whatever its typeName; parse yields what it yields on
\* the list without the trashed records.
C9_TrashedFiltered ==
    parsed \notin {"none", "JSONDecodeError"} =>
        LET r == RunParse(insts[1], Untrashed(xitems), prevdata)
        IN /\ selfdata = r.data
           /\ xfolders = r.folders
           /\ parsed = (IF r.err = "" THEN "ok" ELSE r.err)

\* parse returned on a list that holds a trashed folder and a trashed
\* credential record, and emitted an entry.
C9_Witness ==
    /\ parsed = "ok"
    /\ Len(xitems) >= 2
    /\ \E i \in 1..Len(xitems) :
         /\ xitems[i].k = "dict"
         /\ Get(xitems[i], S("trashed"), JFalse) = JTrue
         /\ Get(xitems[i], S("typeName"), JNull) = JStr(S("webforms.WebForm"))
    /\ \E i \in 1..Len(xitems) : IsCredential(xitems[i])
    /\ Len(selfdata) = 1

====
